---- MODULE Spec2Model ----
(***************************************************************************)
(* A model of steam_community_market: the value sanitizers and the type    *)
(* validator of decorators.py, the currency tables of currencies.py and    *)
(* the Market facade of market.py with its price parser.                   *)
(*                                                                         *)
(* Python values are records [t |-> <runtime type>, v |-> <payload>].  A   *)
(* str's payload is the sequence of its characters, a list's or a tuple's  *)
(* payload the sequence of its elements, a dict's payload the sequence of  *)
(* its <<key, value>> items in insertion order, an enum member's payload   *)
(* its value, and a float's payload <<integer digits, two cent digits>>.   *)
(***************************************************************************)
EXTENDS Integers, Sequences, FiniteSets, TLC

VARIABLES
  currency,      \* Market.currency, the facade's default currency
  language,      \* Market.language, the facade's default language
  enumContains,  \* what `int in EnumClass` does on the running interpreter
  call           \* the call in progress or last made: arguments and outcome

vars == <<currency, language, enumContains, call>>

----------------------------------------------------------------------------
(* Python values *)

PyInt(n) == [t |-> "int", v |-> n]
PyStr(s) == [t |-> "str", v |-> s]
PyBool(b) == [t |-> "bool", v |-> b]
PyList(s) == [t |-> "list", v |-> s]
PyTuple(s) == [t |-> "tuple", v |-> s]
PyDict(s) == [t |-> "dict", v |-> s]
PyFloat(digits, cents) == [t |-> "float", v |-> <<digits, cents>>]
Member(cls, n) == [t |-> cls, v |-> n]
None     == [t |-> "NoneType", v |-> 0]
\* an argument the caller did not pass: the wrappers never see it and the
\* function body takes the parameter's default
Omitted  == [t |-> "<omitted>", v |-> 0]

\* IntEnum subclasses int, and bool subclasses int
IntSubclasses == {"int", "bool", "Currency", "LegacyCurrency", "AppID"}

IsInstance(value, cls) ==
  IF cls = "int" THEN value.t \in IntSubclasses ELSE value.t = cls

\* an outcome of a call: a returned value or a raised exception
Return(x)  == [kind |-> "return", exc |-> "", val |-> x]
Raise(e)   == [kind |-> "raise", exc |-> e, val |-> None]
Pending    == [kind |-> "pending", exc |-> "", val |-> None]

----------------------------------------------------------------------------
(* Strings *)

LowerCase == <<"a","b","c","d","e","f","g","h","i","j","k","l","m",
               "n","o","p","q","r","s","t","u","v","w","x","y","z">>
UpperCase == <<"A","B","C","D","E","F","G","H","I","J","K","L","M",
               "N","O","P","Q","R","S","T","U","V","W","X","Y","Z">>

UpperChar(c) ==
  IF \E i \in 1..Len(LowerCase) : LowerCase[i] = c
  THEN UpperCase[CHOOSE i \in 1..Len(LowerCase) : LowerCase[i] = c]
  ELSE c

Upper(s) == [i \in 1..Len(s) |-> UpperChar(s[i])]

\* str.replace(old, new) for single characters
Replace(s, old, new) == [i \in 1..Len(s) |-> IF s[i] = old THEN new ELSE s[i]]

----------------------------------------------------------------------------
(* currencies.py *)

\* SteamCurrency: member names by value, 1..47
SteamCurrency ==
  << <<"U","S","D">>, <<"G","B","P">>, <<"E","U","R">>, <<"C","H","F">>,
     <<"R","U","B">>, <<"P","L","N">>, <<"B","R","L">>, <<"J","P","Y">>,
     <<"N","O","K">>, <<"I","D","R">>, <<"M","Y","R">>, <<"P","H","P">>,
     <<"S","G","D">>, <<"T","H","B">>, <<"V","N","D">>, <<"K","R","W">>,
     <<"T","R","Y">>, <<"U","A","H">>, <<"M","X","N">>, <<"C","A","D">>,
     <<"A","U","D">>, <<"N","Z","D">>, <<"C","N","Y">>, <<"I","N","R">>,
     <<"C","L","P">>, <<"P","E","N">>, <<"C","O","P">>, <<"Z","A","R">>,
     <<"H","K","D">>, <<"T","W","D">>, <<"S","A","R">>, <<"A","E","D">>,
     <<"S","E","K">>, <<"A","R","S">>, <<"I","L","S">>, <<"B","Y","N">>,
     <<"K","Z","T">>, <<"K","W","D">>, <<"Q","A","R">>, <<"C","R","C">>,
     <<"U","Y","U">>, <<"B","G","N">>, <<"H","R","K">>, <<"C","Z","K">>,
     <<"D","K","K">>, <<"H","U","F">>, <<"R","O","N">> >>

\* SteamLegacyCurrency: member names by value
SteamLegacyCurrency ==
  (33 :> <<"S","E","K">>) @@ (36 :> <<"B","Y","N">>) @@
  (42 :> <<"B","G","N">>) @@ (43 :> <<"H","R","K">>) @@
  (44 :> <<"C","Z","K">>) @@ (45 :> <<"D","K","K">>) @@
  (46 :> <<"H","U","F">>) @@ (47 :> <<"R","O","N">>)

\* enums.py is not part of the sources at hand: SteamLanguage is taken from the
\* specification (section 4.1), a closed table of names, of which two are kept
SteamLanguage == << <<"E","N","G","L","I","S","H">>, <<"G","E","R","M","A","N">> >>

\* the member table of an enum class, as a function from value to name
Members(cls) ==
  IF cls = "Currency" THEN SteamCurrency
  ELSE IF cls = "LegacyCurrency" THEN SteamLegacyCurrency
  ELSE IF cls = "Language" THEN SteamLanguage
  ELSE <<>>

\* Cls.from_string(name): the member whose name matches, ignoring case, or None
from_string(cls, name) ==
  LET table == Members(cls)
      hits  == {n \in DOMAIN table : table[n] = Upper(name)}
  IN IF hits = {} THEN None ELSE Member(cls, CHOOSE n \in hits : TRUE)

\* Cls(value): the member with that value; ValueError when there is none
ByValue(cls, n) ==
  IF n \in DOMAIN Members(cls) THEN Return(Member(cls, n)) ELSE Raise("ValueError")

----------------------------------------------------------------------------
(* decorators.py: the value sanitizers *)

_sanitize_currency_value(value) ==
  IF IsInstance(value, "Currency") \/ IsInstance(value, "LegacyCurrency")
  THEN IF IsInstance(value, "LegacyCurrency")
       THEN Raise("LegacyCurrencyException")
       ELSE Return(value)
  ELSE IF IsInstance(value, "str")
  THEN IF from_string("LegacyCurrency", value.v) # None
       THEN Raise("LegacyCurrencyException")
       ELSE LET c == from_string("Currency", value.v)
            IN IF c = None THEN Raise("InvalidCurrencyException") ELSE Return(c)
  ELSE IF IsInstance(value, "int")
  THEN IF enumContains = "TypeError"
       THEN Raise("TypeError")
       ELSE IF value.v \in DOMAIN SteamLegacyCurrency
       THEN Raise("LegacyCurrencyException")
       ELSE ByValue("Currency", value.v)
  ELSE Return(value)

\* iter(value): the elements a for loop or a comprehension visits
Iterable(value) == value.t \in {"list", "tuple", "str", "dict"}

Iter(value) ==
  IF value.t = "str" THEN [i \in 1..Len(value.v) |-> PyStr(<<value.v[i]>>)]
  ELSE IF value.t = "dict" THEN [i \in 1..Len(value.v) |-> value.v[i][1]]
  ELSE value.v

Digits == <<"0","1","2","3","4","5","6","7","8","9">>

IsDigit(c) == \E i \in 1..Len(Digits) : Digits[i] = c

DigitValue(c) == (CHOOSE i \in 1..Len(Digits) : Digits[i] = c) - 1

RECURSIVE DecimalValue(_)
DecimalValue(s) ==
  IF s = <<>> THEN 0
  ELSE 10 * DecimalValue(SubSeq(s, 1, Len(s) - 1)) + DigitValue(s[Len(s)])

\* int(value)
int(value) ==
  IF value.t = "bool" THEN Return(PyInt(IF value.v THEN 1 ELSE 0))
  ELSE IF IsInstance(value, "int") THEN Return(PyInt(value.v))
  ELSE IF value.t = "str"
  THEN IF value.v # <<>> /\ \A i \in 1..Len(value.v) : IsDigit(value.v[i])
       THEN Return(PyInt(DecimalValue(value.v)))
       ELSE Raise("ValueError")
  ELSE Raise("TypeError")

\* [f(item) for item in items]: the list of the results, or the first exception
RECURSIVE MapList(_, _, _)
MapList(F(_), items, i) ==
  IF i > Len(items) THEN Return(PyList(<<>>))
  ELSE LET head == F(items[i])
       IN IF head.kind = "raise" THEN head
          ELSE LET tail == MapList(F, items, i + 1)
               IN IF tail.kind = "raise" THEN tail
                  ELSE Return(PyList(<<head.val>> \o tail.val.v))

_sanitize_app_id_value(value) ==
  IF IsInstance(value, "list") THEN MapList(int, value.v, 1) ELSE int(value)

_sanitize_language_value(value) ==
  IF IsInstance(value, "Language") THEN Return(value)
  ELSE LET lanuage == from_string("Language", value.v)
       IN IF lanuage = None THEN Raise("InvalidLanguageException") ELSE Return(lanuage)

_sanitize_market_hash_name_value(value) == Return(PyStr(Replace(value.v, "/", "-")))

_sanitize_market_hash_names_value(value) ==
  IF Iterable(value)
  THEN MapList(_sanitize_market_hash_name_value, Iter(value), 1)
  ELSE Raise("TypeError")

\* list(items)
list(items) == IF Iterable(items) THEN Return(PyList(Iter(items))) ELSE Raise("TypeError")

RECURSIVE SanitizeItems(_, _)
SanitizeItems(items, i) ==
  IF i > Len(items) THEN Return(PyDict(<<>>))
  ELSE LET k == int(items[i][1])
           l == list(items[i][2])
       IN IF k.kind = "raise" THEN k
          ELSE IF l.kind = "raise" THEN l
          ELSE LET tail == SanitizeItems(items, i + 1)
               IN IF tail.kind = "raise" THEN tail
                  ELSE Return(PyDict(<<<<k.val, l.val>>>> \o tail.val.v))

_sanitize_market_items_dict(value) ==
  IF value.t = "dict" THEN SanitizeItems(value.v, 1) ELSE Raise("AttributeError")

lowest_price == <<"l","o","w","e","s","t","_","p","r","i","c","e">>
median_price == <<"m","e","d","i","a","n","_","p","r","i","c","e">>

valid_price_types == <<PyStr(lowest_price), PyStr(median_price)>>

InSeq(x, s) == \E i \in 1..Len(s) : s[i] = x

_sanitize_price_type_value(value) ==
  IF IsInstance(value, "str")
  THEN IF ~InSeq(value, valid_price_types)
       THEN Raise("ValueError")
       ELSE Return(PyTuple(<<value>>))
  ELSE IF ~Iterable(value) THEN Raise("TypeError")
  ELSE IF \E i \in 1..Len(Iter(value)) : ~InSeq(Iter(value)[i], valid_price_types)
       THEN Raise("ValueError")
       ELSE Return(value)

_SANITIZE_FUNCS ==
  {"app_id", "currency", "market_items_dict", "language",
   "market_hash_name", "market_hash_names", "price_type"}

_sanitize_value(value, param_name) ==
  IF param_name = "app_id" THEN _sanitize_app_id_value(value)
  ELSE IF param_name = "currency" THEN _sanitize_currency_value(value)
  ELSE IF param_name = "market_items_dict" THEN _sanitize_market_items_dict(value)
  ELSE IF param_name = "language" THEN _sanitize_language_value(value)
  ELSE IF param_name = "market_hash_name" THEN _sanitize_market_hash_name_value(value)
  ELSE IF param_name = "market_hash_names" THEN _sanitize_market_hash_names_value(value)
  ELSE IF param_name = "price_type" THEN _sanitize_price_type_value(value)
  ELSE Return(value)

----------------------------------------------------------------------------
(* decorators.py: the type validator *)

\* a declared type: a plain class (get_origin is None) or origin[args]
Plain(cls)      == [o |-> "", n |-> cls, a |-> <<>>]
Generic(o, a)   == [o |-> o, n |-> "", a |-> a]
Union(a)        == Generic("Union", a)

\* the answers of _typecheck_value: True, False or the exception it raises
RECURSIVE _typecheck_value(_, _)
RECURSIVE AnyArg(_, _, _)
RECURSIVE AllItems(_, _, _)
RECURSIVE AllPairs(_, _, _)
RECURSIVE AllZip(_, _, _)

\* any(_typecheck_value(value, arg) for arg in args)
AnyArg(value, args, i) ==
  IF i > Len(args) THEN "False"
  ELSE LET r == _typecheck_value(value, args[i])
       IN IF r = "False" THEN AnyArg(value, args, i + 1) ELSE r

\* all(_typecheck_value(x, expected) for x in items)
AllItems(items, expected, i) ==
  IF i > Len(items) THEN "True"
  ELSE LET r == _typecheck_value(items[i], expected)
       IN IF r = "True" THEN AllItems(items, expected, i + 1) ELSE r

\* all(_typecheck_value(k, args[0]) and _typecheck_value(v, args[1]) for k, v in items)
AllPairs(items, args, i) ==
  IF i > Len(items) THEN "True"
  ELSE LET rk == _typecheck_value(items[i][1], args[1])
       IN IF rk # "True" THEN rk
          ELSE LET rv == _typecheck_value(items[i][2], args[2])
               IN IF rv = "True" THEN AllPairs(items, args, i + 1) ELSE rv

\* all(_typecheck_value(x, t) for x, t in zip(items, args))
AllZip(items, args, i) ==
  IF i > Len(items) \/ i > Len(args) THEN "True"
  ELSE LET r == _typecheck_value(items[i], args[i])
       IN IF r = "True" THEN AllZip(items, args, i + 1) ELSE r

_typecheck_dict_value(value, expected_type_args) ==
  IF value.t = "dict" THEN AllPairs(value.v, expected_type_args, 1)
  ELSE "AttributeError"

_typecheck_list_value(value, expected_type_args) ==
  IF Iterable(value) THEN AllItems(Iter(value), expected_type_args[1], 1)
  ELSE "TypeError"

_typecheck_set_value(value, expected_type_args) ==
  IF Iterable(value) THEN AllItems(Iter(value), expected_type_args[1], 1)
  ELSE "TypeError"

_typecheck_tuple_value(value, expected_type_args) ==
  IF Iterable(value) THEN AllZip(Iter(value), expected_type_args, 1)
  ELSE "TypeError"

_TYPECHECK_FUNCS == {"dict", "list", "set", "tuple"}

_typecheck_value(value, expected_type) ==
  LET origin == expected_type.o
      args   == expected_type.a
  IN IF origin = ""
     THEN IF IsInstance(value, expected_type.n) THEN "True" ELSE "False"
     ELSE IF origin = "Union" THEN AnyArg(value, args, 1)
     ELSE IF origin = "dict" THEN _typecheck_dict_value(value, args)
     ELSE IF origin = "list" THEN _typecheck_list_value(value, args)
     ELSE IF origin = "set" THEN _typecheck_set_value(value, args)
     ELSE IF origin = "tuple" THEN _typecheck_tuple_value(value, args)
     ELSE "False"

----------------------------------------------------------------------------
(* market.py: the price parser *)

Separators == {".", ","}

\* where re.search starts its match: the leftmost digit, 0 when there is none
FirstDigit(value) ==
  IF \E i \in 1..Len(value) : IsDigit(value[i])
  THEN CHOOSE i \in 1..Len(value) :
         IsDigit(value[i]) /\ \A j \in 1..(i - 1) : ~IsDigit(value[j])
  ELSE 0

DigitsAt(value, from, n) ==
  from + n - 1 <= Len(value) /\ \A j \in from..(from + n - 1) : IsDigit(value[j])

\* \d{1,3}, greedy: the position after the leading digits
LeadEnd(value, start) ==
  IF DigitsAt(value, start, 3) THEN start + 3
  ELSE IF DigitsAt(value, start, 2) THEN start + 2
  ELSE start + 1

\* (?:[.,]\d{3})*, greedy: the position after the last three-digit group
RECURSIVE GroupsEnd(_, _)
GroupsEnd(value, pos) ==
  IF pos <= Len(value) /\ value[pos] \in Separators /\ DigitsAt(value, pos + 1, 3)
  THEN GroupsEnd(value, pos + 4)
  ELSE pos

\* a parser that takes only "." for the decimal separator
HasDecimal_DotOnly(value, pos) ==
  pos <= Len(value) /\ value[pos] = "." /\ DigitsAt(value, pos + 1, 2)

\* (?:[.,](\d{2}))?: group 2 is present
HasDecimal(value, pos) ==
  pos <= Len(value) /\ value[pos] \in Separators /\ DigitsAt(value, pos + 1, 2)

RECURSIVE Remove(_, _)
Remove(s, c) ==
  IF s = <<>> THEN <<>>
  ELSE IF Head(s) = c THEN Remove(Tail(s), c)
  ELSE <<Head(s)>> \o Remove(Tail(s), c)

\* float() of digits "." two digits: the value, written without leading zeros.
\* The payload is exact; a Python float agrees with it up to 15 significant digits.
RECURSIVE StripZeros(_)
StripZeros(digits) ==
  IF Len(digits) > 1 /\ Head(digits) = "0" THEN StripZeros(Tail(digits)) ELSE digits

float(num_str, decimal_part) == PyFloat(StripZeros(num_str), decimal_part)

\* the parser were it to read a string without a match as the price zero
_price_to_float_ZeroDefault(value) ==
  LET start == FirstDigit(value.v)
  IN IF start = 0 THEN float(<<"0">>, <<"0","0">>)
     ELSE LET end          == GroupsEnd(value.v, LeadEnd(value.v, start))
              num_str      == Remove(Remove(SubSeq(value.v, start, end - 1), ","), ".")
              decimal_part == IF HasDecimal(value.v, end)
                              THEN SubSeq(value.v, end + 1, end + 2)
                              ELSE <<"0","0">>
          IN float(num_str, decimal_part)

_price_to_float(value) ==
  LET start == FirstDigit(value.v)
  IN IF start = 0 THEN None
     ELSE LET end          == GroupsEnd(value.v, LeadEnd(value.v, start))
              num_str      == Remove(Remove(SubSeq(value.v, start, end - 1), ","), ".")
              decimal_part == IF HasDecimal(value.v, end)
                              THEN SubSeq(value.v, end + 1, end + 2)
                              ELSE <<"0","0">>
          IN float(num_str, decimal_part)

----------------------------------------------------------------------------
(* Arguments and dictionaries *)

\* the arguments of a call, by parameter name; Omitted where none was passed
NoArgs ==
  [app_id |-> Omitted, market_hash_name |-> Omitted, market_hash_names |-> Omitted,
   items_dict |-> Omitted, price_type |-> Omitted, type_conversion |-> Omitted,
   currency |-> Omitted, language |-> Omitted, value |-> Omitted]

\* the value a function body sees for a parameter: the argument or the default
Param(args, name, default) == IF args[name] = Omitted THEN default ELSE args[name]

\* bool(value)
Truthy(value) ==
  IF value.t = "NoneType" THEN FALSE
  ELSE IF value.t = "bool" THEN value.v
  ELSE IF IsInstance(value, "int") THEN value.v # 0
  ELSE IF value.t = "float" THEN value.v # <<<<"0">>, <<"0","0">>>>
  ELSE IF value.t = "Language" THEN TRUE
  ELSE Len(value.v) > 0

\* a or b
Or(a, b) == IF Truthy(a) THEN a ELSE b

\* key in d
DictHas(d, key) == \E i \in 1..Len(d.v) : d.v[i][1] = key

\* d[key]
DictGet(d, key) == d.v[CHOOSE i \in 1..Len(d.v) : d.v[i][1] = key][2]

\* d[key] = x: an existing key keeps its place, a new key goes last
DictSet(d, key, x) ==
  IF DictHas(d, key)
  THEN PyDict([i \in 1..Len(d.v) |-> IF d.v[i][1] = key THEN <<key, x>> ELSE d.v[i]])
  ELSE PyDict(Append(d.v, <<key, x>>))

----------------------------------------------------------------------------
(* requests.py is not part of the sources at hand: the request collaborator *)
(* is taken from its interface in the specification (section 6).            *)

success == <<"s","u","c","c","e","s","s">>
volume  == <<"v","o","l","u","m","e">>

\* the remote side's answers to one request
Overview(data) == [kind |-> "overview", data |-> data]
NotFound       == [kind |-> "not_found", data |-> None]
RateLimit      == [kind |-> "rate_limit", data |-> None]

\* _request_overview(app_id, market_hash_name, currency, raise_exception), given
\* the remote side's answer
_request_overview(app_id, market_hash_name, cur, raise_exception, resp) ==
  IF resp.kind = "overview" THEN Return(resp.data)
  ELSE IF ~raise_exception THEN Return(None)
  ELSE IF resp.kind = "rate_limit" THEN Raise("TooManyRequestsException")
  ELSE Raise("InvalidItemOrAppIDException")

\* the record of a request issued to the collaborator
Request(app_id, market_hash_name, cur, raise_exception, resp) ==
  [app_id |-> app_id, market_hash_name |-> market_hash_name, currency |-> cur,
   raise_exception |-> raise_exception, resp |-> resp]

----------------------------------------------------------------------------
(* market.py: the Market facade *)

\* int(value.replace(",", ""))
VolumeToInt(value) == int(PyStr(Remove(value.v, ",")))

RECURSIVE ConvertItems(_, _)
ConvertItems(items, i) ==
  IF i > Len(items) THEN Return(PyDict(<<>>))
  ELSE LET key   == items[i][1]
           value == items[i][2]
           head  == IF key \in {PyStr(lowest_price), PyStr(median_price)}
                    THEN Return(_price_to_float(value))
                    ELSE IF key = PyStr(volume) THEN VolumeToInt(value)
                    ELSE Return(value)
       IN IF head.kind = "raise" THEN head
          ELSE LET tail == ConvertItems(items, i + 1)
               IN IF tail.kind = "raise" THEN tail
                  ELSE Return(PyDict(<<<<key, head.val>>>> \o tail.val.v))

\* keys_to_convert is never passed: it is valid_keys
_overview_type_converter(overview) ==
  IF overview.t # "dict" THEN Raise("AttributeError")
  ELSE ConvertItems(overview.v, 1)

\* what a function body did: the requests it issued and how it ended
Done(requests, out) == [requests |-> requests, out |-> out]

get_overview(args, resps) ==
  LET app_id           == args.app_id
      market_hash_name == args.market_hash_name
      type_conversion  == Param(args, "type_conversion", PyBool(TRUE))
      cur              == Or(Param(args, "currency", None), currency)
      rq   == Request(app_id, market_hash_name, cur, TRUE, resps[1])
      data == _request_overview(app_id, market_hash_name, cur, TRUE, resps[1])
  IN IF data.kind = "raise" THEN Done(<<rq>>, data)
     ELSE IF Truthy(type_conversion)
     THEN Done(<<rq>>, _overview_type_converter(data.val))
     ELSE Done(<<rq>>, data)

\* the loop of the two batch operations over (name, id) pairs: one request per
\* pair with raise_exception=False, the conversion, and the store under the name
RECURSIVE BatchLoop(_, _, _, _, _, _, _)
BatchLoop(pairs, type_conversion, cur, resps, i, requests, result) ==
  IF i > Len(pairs) THEN Done(requests, Return(result))
  ELSE LET name == pairs[i][1]
           id   == pairs[i][2]
           rq   == Request(id, name, cur, FALSE, resps[i])
           data == _request_overview(id, name, cur, FALSE, resps[i])
           conv == IF data.kind = "raise" THEN data
                   ELSE IF Truthy(type_conversion)
                   THEN _overview_type_converter(data.val)
                   ELSE data
       IN IF conv.kind = "raise" THEN Done(Append(requests, rq), conv)
          ELSE BatchLoop(pairs, type_conversion, cur, resps, i + 1,
                         Append(requests, rq), DictSet(result, name, conv.val))

\* zip(a, b)
Zip(a, b) ==
  [i \in 1..(IF Len(a) < Len(b) THEN Len(a) ELSE Len(b)) |-> <<a[i], b[i]>>]

\* get_overviews without its length check: zip stops at the shorter list
get_overviews_Unchecked(args, resps) ==
  LET market_hash_names == args.market_hash_names
      type_conversion   == Param(args, "type_conversion", PyBool(TRUE))
      cur               == Or(Param(args, "currency", None), currency)
      app_id == IF ~IsInstance(args.app_id, "list")
                THEN PyList([i \in 1..Len(market_hash_names.v) |-> args.app_id])
                ELSE args.app_id
  IN BatchLoop(Zip(market_hash_names.v, app_id.v), type_conversion, cur,
               resps, 1, <<>>, PyDict(<<>>))

get_overviews(args, resps) ==
  LET market_hash_names == args.market_hash_names
      type_conversion   == Param(args, "type_conversion", PyBool(TRUE))
      cur               == Or(Param(args, "currency", None), currency)
      app_id == IF ~IsInstance(args.app_id, "list")
                THEN PyList([i \in 1..Len(market_hash_names.v) |-> args.app_id])
                ELSE args.app_id
  IN IF Len(market_hash_names.v) # Len(app_id.v)
     THEN Done(<<>>, Raise("IndexError"))
     ELSE BatchLoop(Zip(market_hash_names.v, app_id.v), type_conversion, cur,
                    resps, 1, <<>>, PyDict(<<>>))

\* for app_id, names in items_dict.items(): for name in names: (name, app_id)
RECURSIVE DictPairs(_, _)
DictPairs(items, i) ==
  IF i > Len(items) THEN <<>>
  ELSE LET names == Iter(items[i][2])
       IN [j \in 1..Len(names) |-> <<names[j], items[i][1]>>] \o DictPairs(items, i + 1)

get_overviews_from_dict(args, resps) ==
  LET items_dict      == args.items_dict
      type_conversion == Param(args, "type_conversion", PyBool(TRUE))
      cur             == Or(Param(args, "currency", None), currency)
  IN BatchLoop(DictPairs(items_dict.v, 1), type_conversion, cur, resps, 1,
               <<>>, PyDict(<<>>))

price_keys == <<PyStr(lowest_price), PyStr(median_price)>>

RECURSIVE Prices(_, _, _)
Prices(item, type_conversion, i) ==
  IF i > Len(price_keys) THEN PyDict(<<>>)
  ELSE LET key  == price_keys[i]
           rest == Prices(item, type_conversion, i + 1)
       IN IF DictHas(item, key)
          THEN PyDict(<<<<key, IF Truthy(type_conversion)
                               THEN _price_to_float(DictGet(item, key))
                               ELSE DictGet(item, key)>>>> \o rest.v)
          ELSE rest

get_prices(args, resps) ==
  LET app_id           == args.app_id
      market_hash_name == args.market_hash_name
      type_conversion  == Param(args, "type_conversion", PyBool(TRUE))
      cur              == Or(Param(args, "currency", None), currency)
      rq   == Request(app_id, market_hash_name, cur, TRUE, resps[1])
      item == _request_overview(app_id, market_hash_name, cur, TRUE, resps[1])
  IN IF item.kind = "raise" THEN Done(<<rq>>, item)
     ELSE IF item.val = None THEN Done(<<rq>>, Return(None))
     ELSE Done(<<rq>>, Return(Or(Prices(item.val, type_conversion, 1), None)))

_get_price(app_id, market_hash_name, price_type, type_conversion, cur0, resps) ==
  LET cur  == Or(cur0, currency)
      rq   == Request(app_id, market_hash_name, cur, TRUE, resps[1])
      item == _request_overview(app_id, market_hash_name, cur, TRUE, resps[1])
  IN IF item.kind = "raise" THEN Done(<<rq>>, item)
     ELSE IF item.val = None \/ ~DictHas(item.val, price_type)
     THEN Done(<<rq>>, Return(None))
     ELSE IF Truthy(type_conversion)
     THEN Done(<<rq>>, Return(_price_to_float(DictGet(item.val, price_type))))
     ELSE Done(<<rq>>, Return(DictGet(item.val, price_type)))

get_lowest_price(args, resps) ==
  _get_price(args.app_id, args.market_hash_name, PyStr(lowest_price),
             Param(args, "type_conversion", PyBool(TRUE)),
             Or(Param(args, "currency", None), currency), resps)

get_median_price(args, resps) ==
  _get_price(args.app_id, args.market_hash_name, PyStr(median_price),
             Param(args, "type_conversion", PyBool(TRUE)),
             Or(Param(args, "currency", None), currency), resps)

get_price(args, resps) ==
  _get_price(args.app_id, args.market_hash_name, args.price_type,
             Param(args, "type_conversion", PyBool(TRUE)),
             Param(args, "currency", None), resps)

get_volume(args, resps) ==
  LET app_id           == args.app_id
      market_hash_name == args.market_hash_name
      type_conversion  == Param(args, "type_conversion", PyBool(TRUE))
      rq   == Request(app_id, market_hash_name, currency, TRUE, resps[1])
      item == _request_overview(app_id, market_hash_name, currency, TRUE, resps[1])
  IN IF item.kind = "raise" THEN Done(<<rq>>, item)
     ELSE IF item.val = None \/ ~DictHas(item.val, PyStr(volume))
     THEN Done(<<rq>>, Return(None))
     ELSE IF Truthy(type_conversion)
     THEN Done(<<rq>>, VolumeToInt(DictGet(item.val, PyStr(volume))))
     ELSE Done(<<rq>>, Return(DictGet(item.val, PyStr(volume))))

\* __init__ issues no request and returns None; its assignments to
\* self.currency and self.language are made by the action Construct
__init__(args, resps) == Done(<<>>, Return(None))

----------------------------------------------------------------------------
(* The decorated public operations: @typechecked @sanitized def ... *)

\* the parameters of each public operation after self, in order
Signature(op) ==
  IF op = "__init__" THEN <<"currency", "language">>
  ELSE IF op = "get_overviews"
  THEN <<"app_id", "market_hash_names", "type_conversion", "currency">>
  ELSE IF op = "get_overviews_from_dict"
  THEN <<"items_dict", "type_conversion", "currency">>
  ELSE IF op = "get_price"
  THEN <<"app_id", "market_hash_name", "price_type", "type_conversion", "currency">>
  ELSE IF op = "get_volume" THEN <<"app_id", "market_hash_name", "type_conversion">>
  ELSE <<"app_id", "market_hash_name", "type_conversion", "currency">>

AppIdType == Union(<<Plain("AppID"), Plain("int")>>)

\* func.__annotations__[name]
Annotation(op, name) ==
  IF name = "currency"
  THEN Union(<<Plain("Currency"), Plain("LegacyCurrency"), Plain("int"), Plain("str")>>)
  ELSE IF name = "language" THEN Union(<<Plain("Language"), Plain("str")>>)
  ELSE IF name = "app_id"
  THEN IF op = "get_overviews"
       THEN Union(<<Plain("AppID"), Plain("int"), Generic("list", <<AppIdType>>)>>)
       ELSE AppIdType
  ELSE IF name = "market_hash_names" THEN Generic("list", <<Plain("str")>>)
  ELSE IF name = "items_dict"
  THEN Generic("dict", <<AppIdType, Generic("list", <<Plain("str")>>)>>)
  ELSE IF name = "type_conversion" THEN Plain("bool")
  ELSE Plain("str")

\* the wrapper of typechecked, up to its call of func: the arguments passed are
\* checked in order; seen holds each value handed to _typecheck_value
RECURSIVE TypecheckArgs(_, _, _, _)
TypecheckArgs(op, args, i, seen) ==
  IF i > Len(Signature(op)) THEN [out |-> Pending, seen |-> seen]
  ELSE LET arg_name == Signature(op)[i]
           arg      == args[arg_name]
       IN IF arg = Omitted THEN TypecheckArgs(op, args, i + 1, seen)
          ELSE LET r     == _typecheck_value(arg, Annotation(op, arg_name))
                   seen2 == [seen EXCEPT ![arg_name] = arg]
               IN IF r = "True" THEN TypecheckArgs(op, args, i + 1, seen2)
                  ELSE IF r = "False" THEN [out |-> Raise("TypeError"), seen |-> seen2]
                  ELSE [out |-> Raise(r), seen |-> seen2]

typechecked(op, args) == TypecheckArgs(op, args, 1, NoArgs)

\* the wrapper of sanitized, up to its call of func: the arguments passed whose
\* names are in _SANITIZE_FUNCS are replaced in order; clean holds the arguments
\* as func would receive them
RECURSIVE SanitizeArgs(_, _, _)
SanitizeArgs(op, args, i) ==
  IF i > Len(Signature(op)) THEN [out |-> Pending, clean |-> args]
  ELSE LET arg_name == Signature(op)[i]
           arg      == args[arg_name]
       IN IF arg = Omitted \/ arg_name \notin _SANITIZE_FUNCS
          THEN SanitizeArgs(op, args, i + 1)
          ELSE LET r == _sanitize_value(arg, arg_name)
               IN IF r.kind = "raise" THEN [out |-> r, clean |-> args]
                  ELSE SanitizeArgs(op, [args EXCEPT ![arg_name] = r.val], i + 1)

\* the wrapper of sanitized were it to swallow a sanitizer's error and hand
\* func the arguments as they stood when it was raised
sanitized_Swallowing(op, args) ==
  [out |-> Pending, clean |-> SanitizeArgs(op, args, 1).clean]

sanitized(op, args) == SanitizeArgs(op, args, 1)

\* the undecorated function
Body(op, args, resps) ==
  IF op = "__init__" THEN __init__(args, resps)
  ELSE IF op = "get_overview" THEN get_overview(args, resps)
  ELSE IF op = "get_overviews" THEN get_overviews(args, resps)
  ELSE IF op = "get_overviews_from_dict" THEN get_overviews_from_dict(args, resps)
  ELSE IF op = "get_prices" THEN get_prices(args, resps)
  ELSE IF op = "get_lowest_price" THEN get_lowest_price(args, resps)
  ELSE IF op = "get_median_price" THEN get_median_price(args, resps)
  ELSE IF op = "get_price" THEN get_price(args, resps)
  ELSE get_volume(args, resps)

\* a call, as recorded: raw is what the caller passed, seen what the type
\* validator inspected, clean what the sanitizer produced, ran whether the
\* function body was entered
Call(op, raw, seen, clean, ran, requests, out) ==
  [op |-> op, raw |-> raw, seen |-> seen, clean |-> clean, ran |-> ran,
   requests |-> requests, out |-> out]

\* the decorators stacked the other way round, sanitized(typechecked(func)):
\* the arguments are sanitized first and the validator inspects the results
Decorated_SanitizedFirst(op, args, resps) ==
  LET sn == sanitized(op, args)
  IN IF sn.out.kind = "raise"
     THEN Call(op, args, NoArgs, sn.clean, FALSE, <<>>, sn.out)
     ELSE LET tc == typechecked(op, sn.clean)
          IN IF tc.out.kind = "raise"
             THEN Call(op, args, tc.seen, sn.clean, FALSE, <<>>, tc.out)
             ELSE LET b == Body(op, sn.clean, resps)
                  IN Call(op, args, tc.seen, sn.clean, TRUE, b.requests, b.out)

\* typechecked(sanitized(func))(self, ...): the outer wrapper, typechecked, runs
\* first, on the caller's arguments; then sanitized; then the function
Decorated(op, args, resps) ==
  LET tc == typechecked(op, args)
  IN IF tc.out.kind = "raise"
     THEN Call(op, args, tc.seen, NoArgs, FALSE, <<>>, tc.out)
     ELSE LET sn == sanitized(op, args)
          IN IF sn.out.kind = "raise"
             THEN Call(op, args, tc.seen, sn.clean, FALSE, <<>>, sn.out)
             ELSE LET b == Body(op, sn.clean, resps)
                  IN Call(op, args, tc.seen, sn.clean, TRUE, b.requests, b.out)

----------------------------------------------------------------------------
(* Bounds and the inputs drawn within them *)

MaxItems  == 2   \* items in one batch call
MaxCode   == 49  \* integer currency codes tried: 0..MaxCode
MaxLen    == 4   \* length of the arbitrary strings given to the price parser
MaxGroups == 2   \* three-digit groups in the well-formed price strings

\* all sequences over S of length at most n
SeqsUpTo(S, n) == UNION {[1..k -> S] : k \in 0..n}

ItemNames == {PyStr(<<"a","/","b">>), PyStr(<<"c">>)}

AppIds == {PyInt(440), Member("AppID", 730)}

\* the remote side's answers
FullOverview ==
  Overview(PyDict(<< <<PyStr(success), PyBool(TRUE)>>,
                     <<PyStr(lowest_price), PyStr(<<"$","1",",","2","3","4",".","5","6">>)>>,
                     <<PyStr(volume), PyStr(<<"1",",","2","3","4">>)>>,
                     <<PyStr(median_price), PyStr(<<"$","1",",","2","0","0",".","0","7">>)>> >>))

MedianOnly ==
  Overview(PyDict(<< <<PyStr(success), PyBool(TRUE)>>,
                     <<PyStr(median_price), PyStr(<<"7",",","5","0","e">>)>> >>))

Responses == {FullOverview, MedianOnly, NotFound, RateLimit}

TypeConversionArgs == {Omitted, PyBool(FALSE)}

CurrencyArgs == {Omitted, PyInt(3), Member("LegacyCurrency", 33)}

PriceTypeArgs == {PyStr(lowest_price), PyStr(median_price), PyStr(volume)}

AppIdArgs == AppIds \cup {PyStr(<<"x">>)}

AppIdListArgs == AppIds \cup {PyList(l) : l \in SeqsUpTo(AppIds, MaxItems)}

NameListArgs == {PyList(l) : l \in SeqsUpTo(ItemNames, MaxItems)} \cup {PyStr(<<"c">>)}

\* dictionaries of at most MaxItems names in all, under distinct app ids
ItemsDictArgs ==
  {PyDict(<<>>)}
  \cup {PyDict(<< <<k, PyList(l)>> >>) :
          k \in AppIds, l \in SeqsUpTo(ItemNames, MaxItems) \ {<<>>}}
  \cup {PyDict(<< <<PyInt(440), PyList(<<m>>)>>, <<Member("AppID", 730), PyList(<<n>>)>> >>) :
          m \in ItemNames, n \in ItemNames}

ConstructorCurrencyArgs ==
  {Omitted, PyStr(<<"e","u","r">>), Member("Currency", 33), PyInt(99), None}

ConstructorLanguageArgs ==
  {Omitted, PyStr(<<"g","e","r","m","a","n">>), PyStr(<<"x","x">>)}

SingleItemOps == {"get_overview", "get_prices", "get_lowest_price", "get_median_price"}

\* the arguments a caller may pass to each public operation
Inputs(op) ==
  IF op = "__init__"
  THEN {[NoArgs EXCEPT !.currency = c, !.language = l] :
          c \in ConstructorCurrencyArgs, l \in ConstructorLanguageArgs}
  ELSE IF op = "get_overviews"
  THEN {[NoArgs EXCEPT !.app_id = a, !.market_hash_names = n,
                       !.type_conversion = t, !.currency = c] :
          a \in AppIdListArgs, n \in NameListArgs,
          t \in TypeConversionArgs, c \in CurrencyArgs}
  ELSE IF op = "get_overviews_from_dict"
  THEN {[NoArgs EXCEPT !.items_dict = d, !.type_conversion = t, !.currency = c] :
          d \in ItemsDictArgs, t \in TypeConversionArgs, c \in CurrencyArgs}
  ELSE IF op = "get_price"
  THEN {[NoArgs EXCEPT !.app_id = a, !.market_hash_name = n, !.price_type = p,
                       !.type_conversion = t, !.currency = c] :
          a \in AppIdArgs, n \in ItemNames, p \in PriceTypeArgs,
          t \in TypeConversionArgs, c \in CurrencyArgs}
  ELSE IF op = "get_volume"
  THEN {[NoArgs EXCEPT !.app_id = a, !.market_hash_name = n, !.type_conversion = t] :
          a \in AppIdArgs, n \in ItemNames, t \in TypeConversionArgs}
  ELSE {[NoArgs EXCEPT !.app_id = a, !.market_hash_name = n,
                       !.type_conversion = t, !.currency = c] :
          a \in AppIdArgs, n \in ItemNames,
          t \in TypeConversionArgs, c \in CurrencyArgs}

PublicOps ==
  {"__init__", "get_overview", "get_overviews", "get_overviews_from_dict",
   "get_prices", "get_lowest_price", "get_median_price", "get_price", "get_volume"}

----------------------------------------------------------------------------
(* The facade as a state machine *)

\* a call that has been made and has not run yet
Entered(op, args) == Call(op, args, NoArgs, NoArgs, FALSE, <<>>, Pending)

\* no call in progress: the caller has taken the last outcome
Idle == Call("", NoArgs, NoArgs, NoArgs, FALSE, <<>>,
             [kind |-> "idle", exc |-> "", val |-> None])

Finished == call.out.kind \in {"return", "raise"}

Interpreters == {"TypeError", "ByValue"}

\* Market(): the facade constructed with its defaults, and no call in progress
Init ==
  /\ enumContains \in Interpreters
  /\ currency = Member("Currency", 1)
  /\ language = Member("Language", 1)
  /\ call = Idle

\* the caller calls a public operation
Invoke ==
  /\ call.out.kind = "idle"
  /\ \E op \in PublicOps : \E args \in Inputs(op) : call' = Entered(op, args)
  /\ UNCHANGED <<currency, language, enumContains>>

\* the call returns or raises to the caller
Leave ==
  /\ Finished
  /\ call' = Idle
  /\ UNCHANGED <<currency, language, enumContains>>

Construct ==
  /\ call.op = "__init__"
  /\ call.out.kind = "pending"
  /\ LET done == Decorated("__init__", call.raw, <<>>)
     IN /\ call' = done
        /\ IF done.out.kind = "return"
           THEN /\ currency' = Param(done.clean, "currency", Member("Currency", 1))
                /\ language' = Param(done.clean, "language", Member("Language", 1))
           ELSE UNCHANGED <<currency, language>>
  /\ UNCHANGED enumContains

\* an operation that kept the currency of the call as the facade's default
Run_KeepsCurrency(op) ==
  /\ call.op = op
  /\ call.out.kind = "pending"
  /\ \E resps \in [1..MaxItems -> Responses] : call' = Decorated(op, call.raw, resps)
  /\ currency' = IF call'.ran /\ call'.clean.currency # Omitted
                 THEN call'.clean.currency
                 ELSE currency
  /\ UNCHANGED <<language, enumContains>>

\* an operation other than the constructor runs against the remote side's
\* answers to its requests, the i-th request getting the i-th answer
Run(op) ==
  /\ call.op = op
  /\ call.out.kind = "pending"
  /\ \E resps \in [1..MaxItems -> Responses] : call' = Decorated(op, call.raw, resps)
  /\ UNCHANGED <<currency, language, enumContains>>

GetOverview          == Run("get_overview")
GetOverviews         == Run("get_overviews")
GetOverviewsFromDict == Run("get_overviews_from_dict")
GetPrices            == Run("get_prices")
GetLowestPrice       == Run("get_lowest_price")
GetMedianPrice       == Run("get_median_price")
GetPrice             == Run("get_price")
GetVolume            == Run("get_volume")

Next ==
  \/ Invoke
  \/ Leave
  \/ Construct
  \/ GetOverview
  \/ GetOverviews
  \/ GetOverviewsFromDict
  \/ GetPrices
  \/ GetLowestPrice
  \/ GetMedianPrice
  \/ GetPrice
  \/ GetVolume

Spec == Init /\ [][Next]_vars

----------------------------------------------------------------------------
(* The currency sanitizer applied to one input *)

LowerChar(c) ==
  IF \E i \in 1..Len(UpperCase) : UpperCase[i] = c
  THEN LowerCase[CHOOSE i \in 1..Len(UpperCase) : UpperCase[i] = c]
  ELSE c

Lower(s) == [i \in 1..Len(s) |-> LowerChar(s[i])]

\* the inputs in each accepted shape: members of both enums, integer codes
\* and names in upper and in lower case, with two names of no currency
CurrencyInputs ==
  {Member("Currency", n) : n \in DOMAIN SteamCurrency}
  \cup {Member("LegacyCurrency", n) : n \in DOMAIN SteamLegacyCurrency}
  \cup {PyInt(n) : n \in 0..MaxCode}
  \cup {PyStr(SteamCurrency[n]) : n \in DOMAIN SteamCurrency}
  \cup {PyStr(Lower(SteamCurrency[n])) : n \in DOMAIN SteamCurrency}
  \cup {PyStr(<<"X","Y","Z">>), PyStr(<<>>)}

InitCurrency ==
  /\ enumContains \in Interpreters
  /\ currency = Member("Currency", 1)
  /\ language = Member("Language", 1)
  /\ \E value \in CurrencyInputs :
       call = Entered("_sanitize_currency_value", [NoArgs EXCEPT !.currency = value])

SanitizeCurrency ==
  /\ call.op = "_sanitize_currency_value"
  /\ call.out.kind = "pending"
  /\ call' = [call EXCEPT !.ran = TRUE,
                          !.out = _sanitize_currency_value(call.raw.currency)]
  /\ UNCHANGED <<currency, language, enumContains>>

NextCurrency == SanitizeCurrency

SpecCurrency == InitCurrency /\ [][NextCurrency]_vars

----------------------------------------------------------------------------
(* The price parser applied to one string, and again to its own output *)

PriceChars == {"0", "7", ".", ",", "$"}

ShapeDigits == {"0", "7"}

RECURSIVE GroupSeqs(_)
GroupSeqs(k) ==
  IF k = 0 THEN {<<>>}
  ELSE {<<sep>> \o d \o rest :
          sep \in Separators, d \in [1..3 -> ShapeDigits], rest \in GroupSeqs(k - 1)}

\* one to three digits, groups of a separator and three digits, and optionally
\* a separator and two digits
ShapeStrings ==
  {lead \o groups \o cents :
     lead \in UNION {[1..k -> ShapeDigits] : k \in 1..3},
     groups \in UNION {GroupSeqs(k) : k \in 0..MaxGroups},
     cents \in {<<>>} \cup {<<sep>> \o d : sep \in Separators, d \in [1..2 -> ShapeDigits]}}

\* the strings the specification names
ExampleStrings ==
  { <<"1","2","3","4",".","5","6">>,
    <<"1",".","2","3","4",",","5","6">>,
    <<"1",",","2","3","4",".","5","6">>,
    <<"1",",","2","3","4">>,
    <<>>,
    <<"N","/","A">> }

PriceInputs == SeqsUpTo(PriceChars, MaxLen) \cup ShapeStrings \cup ExampleStrings

\* format(x, ".2f") of a parsed price
FloatToStr(x) == x.v[1] \o <<".">> \o x.v[2]

InitPrice ==
  /\ enumContains = "ByValue"
  /\ currency = Member("Currency", 1)
  /\ language = Member("Language", 1)
  /\ \E s \in PriceInputs :
       call = Entered("_price_to_float", [NoArgs EXCEPT !.value = PyStr(s)])

PriceToFloat ==
  /\ call.op = "_price_to_float"
  /\ call.out.kind = "pending"
  /\ call' = [call EXCEPT !.ran = TRUE, !.out = Return(_price_to_float(call.raw.value))]
  /\ UNCHANGED <<currency, language, enumContains>>

\* the price returned is written out and parsed again
Reparse ==
  /\ call.op = "_price_to_float"
  /\ call.out.kind = "return"
  /\ call.out.val # None
  /\ LET value == PyStr(FloatToStr(call.out.val))
     IN call' = [call EXCEPT !.raw.value = value, !.out = Return(_price_to_float(value))]
  /\ UNCHANGED <<currency, language, enumContains>>

NextPrice == PriceToFloat \/ Reparse

SpecPrice == InitPrice /\ [][NextPrice]_vars

----------------------------------------------------------------------------
(* Properties of the currency sanitizer (SpecCurrency) *)

LegacySet == {33, 36, 42, 43, 44, 45, 46, 47}

\* the numeric code an input stands for: a member's value, an integer itself,
\* the value of the currency a name names (0 when it names none)
ResolvedCode(value) ==
  IF value.t = "str"
  THEN IF \E n \in DOMAIN SteamCurrency : SteamCurrency[n] = Upper(value.v)
       THEN CHOOSE n \in DOMAIN SteamCurrency : SteamCurrency[n] = Upper(value.v)
       ELSE 0
  ELSE value.v

\* C1: an input of any shape whose resolved numeric code is in the legacy set
\* makes the sanitizer fail with the legacy-currency error: it returns no
\* currency for it and raises no other error.
C1_LegacyCodeRejected ==
  (/\ call.op = "_sanitize_currency_value"
   /\ Finished
   /\ ResolvedCode(call.raw.currency) \in LegacySet)
  => call.out = Raise("LegacyCurrencyException")

\* C11: an integer code or a name that resolves to no entry of the currency
\* table makes the sanitizer fail with the invalid-currency error and no
\* other; one that resolves to a non-legacy entry is returned as that
\* canonical currency.
C11_InvalidOrCanonical ==
  (/\ call.op = "_sanitize_currency_value"
   /\ Finished
   /\ call.raw.currency.t \in {"int", "str"}
   /\ ResolvedCode(call.raw.currency) \notin LegacySet)
  => IF ResolvedCode(call.raw.currency) \in DOMAIN SteamCurrency
     THEN call.out = Return(Member("Currency", ResolvedCode(call.raw.currency)))
     ELSE call.out = Raise("InvalidCurrencyException")

----------------------------------------------------------------------------
(* Properties of the facade (Spec) *)

BatchOps == {"get_overviews", "get_overviews_from_dict"}

ArgNames == DOMAIN NoArgs

\* the (name, app id) items a batch call was given, in order
InputItems ==
  IF call.op = "get_overviews"
  THEN LET names == call.clean.market_hash_names.v
           ids   == call.clean.app_id
       IN [i \in 1..Len(names) |->
             <<names[i], IF ids.t = "list"
                         THEN (IF i <= Len(ids.v) THEN ids.v[i] ELSE None)
                         ELSE ids>>]
  ELSE DictPairs(call.clean.items_dict.v, 1)

\* the entry a batch result should hold for an item whose request got resp
ExpectedEntry(resp) ==
  IF resp.kind # "overview" THEN None
  ELSE IF Truthy(Param(call.clean, "type_conversion", PyBool(TRUE)))
  THEN _overview_type_converter(resp.data).val
  ELSE resp.data

\* C2: a batch call with the default type_conversion for two item names, one
\* of which the collaborator reports as not found, returns normally with both
\* names as keys: None for the unknown one, the overview for the known one.
C2_UnknownItemMapsToNone ==
  (/\ call.op \in BatchOps
   /\ Finished
   /\ call.ran
   /\ call.raw.type_conversion = Omitted
   /\ Len(InputItems) = 2
   /\ InputItems[1][1] # InputItems[2][1]
   /\ \A i \in 1..Len(call.requests) :
        call.requests[i].resp.kind \in {"overview", "not_found"}
   /\ Cardinality({i \in 1..Len(call.requests) :
                     call.requests[i].resp.kind = "not_found"}) = 1)
  => /\ call.out.kind = "return"
     /\ Len(call.requests) = 2
     /\ \A i \in 1..2 :
          /\ DictHas(call.out.val, InputItems[i][1])
          /\ DictGet(call.out.val, InputItems[i][1])
               = ExpectedEntry(call.requests[i].resp)

\* C3: in the batch operations a rate-limit signal during any per-item request
\* reaches the caller as the rate-limit exception, never as a None entry.
C3_RateLimitPropagates ==
  (/\ call.op \in BatchOps
   /\ Finished
   /\ \E i \in 1..Len(call.requests) : call.requests[i].resp.kind = "rate_limit")
  => call.out = Raise("TooManyRequestsException")

\* C4: get_price with price_type "lowest_price" returns what get_lowest_price
\* returns for the same arguments and the same response, and with
\* "median_price" what get_median_price returns.
C4_GetPriceAgrees ==
  (/\ call.op = "get_price"
   /\ Finished
   /\ call.ran)
  => LET resps == <<call.requests[1].resp>>
     IN /\ call.raw.price_type = PyStr(lowest_price)
             => call.out = get_lowest_price(call.clean, resps).out
        /\ call.raw.price_type = PyStr(median_price)
             => call.out = get_median_price(call.clean, resps).out

\* C5, as claimed: the value the type validator inspects for an argument is
\* the sanitizer's output for it.
C5_ValidatorSeesSanitized ==
  (/\ call.op \in PublicOps
   /\ Finished
   /\ call.ran)
  => \A name \in ArgNames : call.seen[name] = call.clean[name]

\* C5, amended: type validation runs first and inspects the caller's raw
\* value of every argument passed; sanitization runs after it, only when
\* validation passed, and the function body receives the sanitizer's output.
C5_ValidatorSeesRaw ==
  (/\ call.op \in PublicOps
   /\ Finished)
  => /\ \A name \in ArgNames : call.seen[name] \in {Omitted, call.raw[name]}
     /\ (call.clean # NoArgs \/ call.ran)
          => \A name \in ArgNames : call.seen[name] = call.raw[name]
     /\ call.ran
          => \A name \in ArgNames :
               call.clean[name] =
                 IF call.raw[name] # Omitted /\ name \in _SANITIZE_FUNCS
                 THEN _sanitize_value(call.raw[name], name).val
                 ELSE call.raw[name]

\* a call whose app id the validator saw as the enum member the caller passed
\* and the function body received as the plain integer
C5_Witness ==
  /\ call.op \in PublicOps
  /\ Finished
  /\ call.ran
  /\ call.seen.app_id = Member("AppID", 730)
  /\ call.clean.app_id = PyInt(730)

HasSlash(name) == \E i \in 1..Len(name.v) : name.v[i] = "/"

\* C6: no request issued by a public operation carries an item name with a "/".
C6_NoSlashInRequests ==
  \A i \in 1..Len(call.requests) : ~HasSlash(call.requests[i].market_hash_name)

\* C7: a batch result holds one entry per input item, and the entry of an item
\* is the (converted) response of the request made with its own app id and name.
C7_OneEntryPerItem ==
  (/\ call.op \in BatchOps
   /\ call.out.kind = "return")
  => /\ Len(call.out.val.v) = Len(InputItems)
     /\ Len(call.requests) = Len(InputItems)
     /\ \A i \in 1..Len(InputItems) :
          /\ call.requests[i].market_hash_name = InputItems[i][1]
          /\ call.requests[i].app_id = InputItems[i][2]
          /\ DictHas(call.out.val, InputItems[i][1])
          /\ DictGet(call.out.val, InputItems[i][1])
               = ExpectedEntry(call.requests[i].resp)

\* C8: get_overviews given an app-id list and a name list of different lengths
\* raises the length-mismatch error before any request is issued; given a
\* single app id it raises no length error and pairs that id with every name.
C8_LengthMismatch ==
  (/\ call.op = "get_overviews"
   /\ Finished
   /\ call.ran)
  => LET app_id == call.raw.app_id
         names  == Iter(call.raw.market_hash_names)
     IN /\ (app_id.t = "list" /\ Len(app_id.v) # Len(names))
             => /\ call.out = Raise("IndexError")
                /\ call.requests = <<>>
        /\ app_id.t # "list"
             => /\ call.out # Raise("IndexError")
                /\ Len(call.requests) <= Len(names)
                /\ call.out.kind = "return" => Len(call.requests) = Len(names)
                /\ \A i \in 1..Len(call.requests) :
                     /\ call.requests[i].app_id = PyInt(app_id.v)
                     /\ call.requests[i].market_hash_name
                          = PyStr(Replace(names[i].v, "/", "-"))

\* one app id for two names: the length-mismatch error, and no request
C8_Witness ==
  /\ call.op = "get_overviews"
  /\ call.ran
  /\ call.raw.app_id.t = "list"
  /\ Len(call.raw.app_id.v) = 1
  /\ Len(Iter(call.raw.market_hash_names)) = 2
  /\ call.out = Raise("IndexError")
  /\ call.requests = <<>>

\* the names of the arguments the caller passed
Passed(op, args) ==
  {Signature(op)[i] : i \in {j \in 1..Len(Signature(op)) : args[Signature(op)[j]] # Omitted}}

\* the error one argument fails with, taken by itself: the validator's when
\* its value is not of the declared type, else its sanitizer's; "" when none
ArgError(op, arg_name, arg) ==
  LET t == _typecheck_value(arg, Annotation(op, arg_name))
  IN IF t = "False" THEN "TypeError"
     ELSE IF t # "True" THEN t
     ELSE IF arg_name \in _SANITIZE_FUNCS /\ _sanitize_value(arg, arg_name).kind = "raise"
     THEN _sanitize_value(arg, arg_name).exc
     ELSE ""

ArgErrors(op, args) == {ArgError(op, n, args[n]) : n \in Passed(op, args)} \ {""}

\* C12: when an argument of a public operation fails type validation or
\* sanitization, the call raises that error to the caller, the function body
\* is not entered and no request is issued.
C12_FailureRaisesWithoutRequest ==
  (/\ call.op \in PublicOps
   /\ Finished
   /\ ArgErrors(call.op, call.raw) # {})
  => /\ call.out.kind = "raise"
     /\ call.out.exc \in ArgErrors(call.op, call.raw)
     /\ ~call.ran
     /\ call.requests = <<>>

\* a call with a valid item and a legacy currency ended with the legacy-currency
\* error and without a request
C12_Witness ==
  /\ call.op = "get_overview"
  /\ call.raw.app_id = PyInt(440)
  /\ call.raw.currency = Member("LegacyCurrency", 33)
  /\ call.out = Raise("LegacyCurrencyException")
  /\ call.requests = <<>>

\* a list whose elements are all strings
IsListOfStr(value) ==
  /\ value.t = "list"
  /\ \A i \in 1..Len(value.v) : value.v[i].t = "str"

\* C14: for the parameter declared as a list of strings, market_hash_names of
\* get_overviews, a value that is not a list whose elements are all strings
\* is rejected by the type validator: the call ends with a type error and the
\* function is not entered.
C14_ListKindChecked ==
  (/\ call.op = "get_overviews"
   /\ Finished
   /\ call.raw.market_hash_names # Omitted
   /\ ~IsListOfStr(call.raw.market_hash_names))
  => /\ call.out = Raise("TypeError")
     /\ ~call.ran

\* the currency a call is to send: the one the caller passed, as the currency
\* it stands for, or else the facade's default
CallCurrency(args, default) ==
  IF "currency" \in DOMAIN args /\ args.currency # Omitted
  THEN Member("Currency", ResolvedCode(args.currency))
  ELSE default

\* C15: no public operation after the constructor changes the facade's
\* default currency or default language, whether it succeeds or fails, and
\* every request of a call carries the currency passed to that call or, when
\* none was passed, the facade's default.
C15_DefaultsKept ==
  [][ /\ call.op # "__init__" => (currency' = currency /\ language' = language)
      /\ (call'.op \in PublicOps \ {"__init__"} /\ call'.out.kind \in {"return", "raise"})
         => \A i \in 1..Len(call'.requests) :
              call'.requests[i].currency = CallCurrency(call'.raw, currency') ]_vars

\* a facade constructed with "eur" has answered a call without a currency by a
\* request in its default, EUR
C15_Witness ==
  /\ currency = Member("Currency", 3)
  /\ call.op = "get_lowest_price"
  /\ call.raw.currency = Omitted
  /\ Len(call.requests) = 1
  /\ call.requests[1].currency = Member("Currency", 3)
  /\ call.out.kind = "return"

----------------------------------------------------------------------------
(* Properties of the price parser (SpecPrice) *)

AllDigits(s) == \A i \in 1..Len(s) : IsDigit(s[i])

\* read from the end: a separator third from the end starts the cents
EndsInCents(s) == Len(s) >= 4 /\ s[Len(s) - 2] \in Separators

WholePart(s) == IF EndsInCents(s) THEN SubSeq(s, 1, Len(s) - 3) ELSE s

\* one to three digits, then groups of a separator and three digits
RECURSIVE Grouped(_)
Grouped(s) ==
  IF Len(s) <= 3 THEN Len(s) >= 1 /\ AllDigits(s)
  ELSE /\ s[Len(s) - 3] \in Separators
       /\ AllDigits(SubSeq(s, Len(s) - 2, Len(s)))
       /\ Grouped(SubSeq(s, 1, Len(s) - 4))

WellFormed(s) ==
  /\ Grouped(WholePart(s))
  /\ EndsInCents(s) => AllDigits(SubSeq(s, Len(s) - 1, Len(s)))

RECURSIVE OnlyDigits(_)
OnlyDigits(s) ==
  IF s = <<>> THEN <<>>
  ELSE (IF IsDigit(Head(s)) THEN <<Head(s)>> ELSE <<>>) \o OnlyDigits(Tail(s))

\* C9: for a string of the shape "one to three digits, groups of a separator
\* and three digits, optionally a separator and two digits", whichever of .
\* and , the separators are, the result's integer part is the digits of the
\* groups and its cents the final two digits, or 00 when there are none.
C9_SeparatorsByPosition ==
  (/\ call.op = "_price_to_float"
   /\ Finished
   /\ WellFormed(call.raw.value.v))
  => LET s == call.raw.value.v
     IN call.out.val =
          PyFloat(StripZeros(OnlyDigits(WholePart(s))),
                  IF EndsInCents(s) THEN SubSeq(s, Len(s) - 1, Len(s)) ELSE <<"0","0">>)

\* "1.234,56" parsed to 1234.56
C9_Witness ==
  /\ call.op = "_price_to_float"
  /\ call.raw.value = PyStr(<<"1",".","2","3","4",",","5","6">>)
  /\ call.out = Return(PyFloat(<<"1","2","3","4">>, <<"5","6">>))

\* digits without a leading zero, a "." and two digits: what FloatToStr writes
Canonical(s) ==
  /\ Len(s) >= 4
  /\ s[Len(s) - 2] = "."
  /\ AllDigits(SubSeq(s, Len(s) - 1, Len(s)))
  /\ AllDigits(SubSeq(s, 1, Len(s) - 3))
  /\ (Len(s) > 4 => s[1] # "0")

\* C10: parsing is idempotent on its canonical output: a value written as
\* plain digits, "." and two decimals parses to that same value, as "1234.56"
\* to 1234.56.
C10_CanonicalParsesToItself ==
  (/\ call.op = "_price_to_float"
   /\ Finished
   /\ Canonical(call.raw.value.v))
  => /\ call.out.val # None
     /\ FloatToStr(call.out.val) = call.raw.value.v

NoDigit(s) == \A i \in 1..Len(s) : s[i] \notin {"0","1","2","3","4","5","6","7","8","9"}

\* C13: for a string that holds no digit at all, the price parser returns
\* None and raises no error.
C13_NoDigitGivesNone ==
  (/\ call.op = "_price_to_float"
   /\ Finished
   /\ NoDigit(call.raw.value.v))
  => call.out = Return(None)

\* "N/A" has been parsed, to None
C13_Witness ==
  /\ call.op = "_price_to_float"
  /\ call.ran
  /\ call.raw.value = PyStr(<<"N","/","A">>)
  /\ call.out = Return(None)

====
